---- MODULE Spec2Model ----
(***************************************************************************)
(* Model of windows/flutter/generated_plugin_registrant.cc.                *)
(*                                                                         *)
(* RegisterPlugins(registry) is a straight-line procedure of eight         *)
(* statements.  Statement k evaluates its argument                         *)
(*     registry->GetRegistrarForPlugin(<name k>)                           *)
(* and then calls <fn k>(<that registrar>).  The model gives every one of  *)
(* the sixteen calls its own step, so that a failure of either call and    *)
(* the order of the calls are observable.                                  *)
(*                                                                         *)
(* The registry and the plugins' registration functions are external       *)
(* collaborators: a call to either may return, throw or abort.             *)
(***************************************************************************)
EXTENDS Integers, Sequences, FiniteSets, TLC

VARIABLES
    registry,   \* the handle passed as `registry`: "valid" or "null"
    pc,         \* position of the caller/RegisterPlugins
    i,          \* index of the statement being executed (0 outside a call)
    tmp,        \* the registrar returned by the lookup of statement i
    calls,      \* the calls issued by the current invocation, in order
    lookups,    \* registry side: name -> number of GetRegistrarForPlugin calls
    regCalls,   \* plugin side: fn -> number of calls of that entry point
    received,   \* plugin side: <<fn, plugin key of the registrar received>>
    slots,      \* registry side: name -> registrations made in that slot
    entry,      \* slots as they were when the current invocation began
    raised,     \* the failure raised by a callee of the current invocation
    surfaced,   \* the failure that left RegisterPlugins towards its caller
    started,    \* invocations of RegisterPlugins begun
    completed,  \* invocations of RegisterPlugins that returned normally
    host        \* "startup" until the host proceeds to run the application

vars == <<registry, pc, i, tmp, calls, lookups, regCalls, received, slots,
          entry, raised, surfaced, started, completed, host>>

\* Number of invocations of RegisterPlugins a behaviour may hold.
MaxInvocations == 2

-----------------------------------------------------------------------------
(* The table of (registration function, plugin name) pairs, in source order *)

Suffix == "RegisterWithRegistrar"

\* Tables a faulty generator could have emitted: the second statement looks
\* up the first plugin's name; a misspelled name; two statements with each
\* other's names; the same for the last two; one entry point called twice;
\* the last statement missing; two statements in the other order.
DescriptorsDuplicateName ==
    << [fn |-> "BatteryPlusWindowsPluginRegisterWithRegistrar",
        name |-> "BatteryPlusWindowsPlugin"],
       [fn |-> "BonsoirWindowsPluginCApiRegisterWithRegistrar",
        name |-> "BatteryPlusWindowsPlugin"],
       [fn |-> "FirebaseCorePluginCApiRegisterWithRegistrar",
        name |-> "FirebaseCorePluginCApi"],
       [fn |-> "FlutterJsPluginRegisterWithRegistrar",
        name |-> "FlutterJsPlugin"],
       [fn |-> "PermissionHandlerWindowsPluginRegisterWithRegistrar",
        name |-> "PermissionHandlerWindowsPlugin"],
       [fn |-> "ScreenRetrieverWindowsPluginCApiRegisterWithRegistrar",
        name |-> "ScreenRetrieverWindowsPluginCApi"],
       [fn |-> "UrlLauncherWindowsRegisterWithRegistrar",
        name |-> "UrlLauncherWindows"],
       [fn |-> "WindowManagerPluginRegisterWithRegistrar",
        name |-> "WindowManagerPlugin"] >>

DescriptorsMisspelledName ==
    [DescriptorsDuplicateName EXCEPT
        ![2].name = "BonsoirWindowsPlugin"]

DescriptorsSwappedNames ==
    [DescriptorsDuplicateName EXCEPT
        ![2].name = "FirebaseCorePluginCApi",
        ![3].name = "BonsoirWindowsPluginCApi"]

DescriptorsCrossedHandles ==
    [DescriptorsDuplicateName EXCEPT
        ![2].name = "BonsoirWindowsPluginCApi",
        ![7].name = "WindowManagerPlugin",
        ![8].name = "UrlLauncherWindows"]

DescriptorsDuplicateFn ==
    [DescriptorsDuplicateName EXCEPT
        ![2].name = "BonsoirWindowsPluginCApi",
        ![4].fn = "FirebaseCorePluginCApiRegisterWithRegistrar"]

DescriptorsTruncated ==
    SubSeq([DescriptorsDuplicateName EXCEPT
                ![2].name = "BonsoirWindowsPluginCApi"], 1, 7)

DescriptorsReordered ==
    [DescriptorsDuplicateName EXCEPT
        ![2] = [fn |-> "FirebaseCorePluginCApiRegisterWithRegistrar",
                name |-> "FirebaseCorePluginCApi"],
        ![3] = [fn |-> "BonsoirWindowsPluginCApiRegisterWithRegistrar",
                name |-> "BonsoirWindowsPluginCApi"]]

\* The table of the source.
Descriptors ==
    << [fn |-> "BatteryPlusWindowsPluginRegisterWithRegistrar",
        name |-> "BatteryPlusWindowsPlugin"],
       [fn |-> "BonsoirWindowsPluginCApiRegisterWithRegistrar",
        name |-> "BonsoirWindowsPluginCApi"],
       [fn |-> "FirebaseCorePluginCApiRegisterWithRegistrar",
        name |-> "FirebaseCorePluginCApi"],
       [fn |-> "FlutterJsPluginRegisterWithRegistrar",
        name |-> "FlutterJsPlugin"],
       [fn |-> "PermissionHandlerWindowsPluginRegisterWithRegistrar",
        name |-> "PermissionHandlerWindowsPlugin"],
       [fn |-> "ScreenRetrieverWindowsPluginCApiRegisterWithRegistrar",
        name |-> "ScreenRetrieverWindowsPluginCApi"],
       [fn |-> "UrlLauncherWindowsRegisterWithRegistrar",
        name |-> "UrlLauncherWindows"],
       [fn |-> "WindowManagerPluginRegisterWithRegistrar",
        name |-> "WindowManagerPlugin"] >>

\* The names the host's plugin-name table holds (one slot each).
KnownNames ==
    { "BatteryPlusWindowsPlugin", "BonsoirWindowsPluginCApi",
      "FirebaseCorePluginCApi", "FlutterJsPlugin",
      "PermissionHandlerWindowsPlugin", "ScreenRetrieverWindowsPluginCApi",
      "UrlLauncherWindows", "WindowManagerPlugin" }

\* The entry point each plugin's header declares.
EntryPoint(name) == name \o Suffix

KnownFns == { EntryPoint(n) : n \in KnownNames }

\* The plugin an entry point belongs to.
PluginOf(fn) == CHOOSE n \in KnownNames : EntryPoint(n) = fn

-----------------------------------------------------------------------------
(* Values *)

NoRegistrar == [plugin |-> ""]
GarbageRegistrar == [plugin |-> "?"]

NoFailure == [kind |-> "none", op |-> "none", at |-> 0]
FailureKinds == {"exception", "abort"}

LookupCall(name) == [op |-> "lookup", arg |-> name]
RegisterCall(fn) == [op |-> "register", arg |-> fn]

\* One more occurrence of k in the counter f.
Bump(f, k) ==
    IF k \in DOMAIN f THEN [f EXCEPT ![k] = @ + 1] ELSE f @@ (k :> 1)

CountOf(f, k) == IF k \in DOMAIN f THEN f[k] ELSE 0

-----------------------------------------------------------------------------
(* External collaborators *)

\* The sub-registrar the registry hands out for a name: scoped to that name.
GetRegistrarForPlugin(name) == [plugin |-> name]

\* What a plugin's registration does to the registry: it registers through
\* the sub-registrar it was handed, in that sub-registrar's slot.
RegisterWithRegistrar(s, registrar) ==
    IF registrar.plugin \in DOMAIN s
        THEN [s EXCEPT ![registrar.plugin] = @ + 1]
        ELSE s

-----------------------------------------------------------------------------
(* RegisterPlugins *)

\* A catch-all around the statements, which the code does not have.
UnwindSwallowed(f) == [pc |-> "returned", surfaced |-> NoFailure]

\* No try block encloses any statement: a failure raised by a callee leaves
\* RegisterPlugins as it was raised, an exception towards the caller, an
\* abort ending the process.
Unwind(f) ==
    [pc |-> IF f.kind = "exception" THEN "thrown" ELSE "aborted",
     surfaced |-> f]

Init ==
    /\ registry \in {"valid", "null"}
    /\ pc = "idle"
    /\ i = 0
    /\ tmp = NoRegistrar
    /\ calls = << >>
    /\ lookups = << >>
    /\ regCalls = << >>
    /\ received = {}
    /\ slots = [n \in KnownNames |-> 0]
    /\ entry = [n \in KnownNames |-> 0]
    /\ raised = NoFailure
    /\ surfaced = NoFailure
    /\ started = 0
    /\ completed = 0
    /\ host = "startup"

\* A guard against re-entry, which the code does not have.
InvokeGuarded ==
    /\ pc \in {"idle", "returned", "thrown"}
    /\ started < MaxInvocations
    /\ started' = started + 1
    /\ IF completed > 0
          THEN /\ pc' = "returned"
               /\ completed' = completed + 1
               /\ i' = 0
          ELSE /\ pc' = "lookup"
               /\ completed' = completed
               /\ i' = 1
    /\ tmp' = NoRegistrar
    /\ calls' = << >>
    /\ entry' = slots
    /\ raised' = NoFailure
    /\ surfaced' = NoFailure
    /\ UNCHANGED <<registry, lookups, regCalls, received, slots, host>>

\* The caller enters RegisterPlugins(registry).
Invoke ==
    /\ pc \in {"idle", "returned", "thrown"}
    /\ started < MaxInvocations
    /\ started' = started + 1
    /\ pc' = "lookup"
    /\ i' = 1
    /\ tmp' = NoRegistrar
    /\ calls' = << >>
    /\ entry' = slots
    /\ raised' = NoFailure
    /\ surfaced' = NoFailure
    /\ UNCHANGED <<registry, lookups, regCalls, received, slots, completed,
                   host>>

\* registry->GetRegistrarForPlugin(name) returns.
Lookup ==
    /\ pc = "lookup"
    /\ registry = "valid"
    /\ calls' = Append(calls, LookupCall(Descriptors[i].name))
    /\ lookups' = Bump(lookups, Descriptors[i].name)
    /\ tmp' = GetRegistrarForPlugin(Descriptors[i].name)
    /\ pc' = "register"
    /\ UNCHANGED <<registry, i, regCalls, received, slots, entry, raised,
                   surfaced, started, completed, host>>

\* registry->GetRegistrarForPlugin(name) fails.
LookupFails ==
    /\ pc = "lookup"
    /\ registry = "valid"
    /\ \E kind \in FailureKinds :
         LET f == [kind |-> kind, op |-> "lookup", at |-> i] IN
           /\ raised' = f
           /\ surfaced' = Unwind(f).surfaced
           /\ pc' = Unwind(f).pc
           /\ completed' = IF Unwind(f).pc = "returned"
                              THEN completed + 1 ELSE completed
    /\ calls' = Append(calls, LookupCall(Descriptors[i].name))
    /\ lookups' = Bump(lookups, Descriptors[i].name)
    /\ UNCHANGED <<registry, i, tmp, regCalls, received, slots, entry,
                   started, host>>

\* registry->GetRegistrarForPlugin(name) through a null registry: undefined
\* behaviour.  Either the access faults, or the call is dispatched without an
\* object behind it and hands back a meaningless registrar.
LookupNull ==
    /\ pc = "lookup"
    /\ registry = "null"
    /\ \/ LET f == [kind |-> "abort", op |-> "lookup", at |-> i] IN
            /\ raised' = f
            /\ surfaced' = Unwind(f).surfaced
            /\ pc' = Unwind(f).pc
            /\ completed' = IF Unwind(f).pc = "returned"
                               THEN completed + 1 ELSE completed
            /\ UNCHANGED tmp
       \/ /\ tmp' = GarbageRegistrar
          /\ pc' = "register"
          /\ UNCHANGED <<raised, surfaced, completed>>
    /\ calls' = Append(calls, LookupCall(Descriptors[i].name))
    /\ UNCHANGED <<registry, i, lookups, regCalls, received, slots, entry,
                   started, host>>

\* <fn>(tmp) returns; the next statement follows, or the closing brace.
Register ==
    /\ pc = "register"
    /\ calls' = Append(calls, RegisterCall(Descriptors[i].fn))
    /\ regCalls' = Bump(regCalls, Descriptors[i].fn)
    /\ received' = received \cup {<<Descriptors[i].fn, tmp.plugin>>}
    /\ slots' = RegisterWithRegistrar(slots, tmp)
    /\ tmp' = NoRegistrar
    /\ IF i < Len(Descriptors)
          THEN /\ pc' = "lookup"
               /\ i' = i + 1
               /\ completed' = completed
          ELSE /\ pc' = "returned"
               /\ i' = 0
               /\ completed' = completed + 1
    /\ UNCHANGED <<registry, lookups, entry, raised, surfaced, started, host>>

\* <fn>(tmp) fails.
RegisterFails ==
    /\ pc = "register"
    /\ \E kind \in FailureKinds :
         LET f == [kind |-> kind, op |-> "register", at |-> i] IN
           /\ raised' = f
           /\ surfaced' = Unwind(f).surfaced
           /\ pc' = Unwind(f).pc
           /\ completed' = IF Unwind(f).pc = "returned"
                              THEN completed + 1 ELSE completed
    /\ calls' = Append(calls, RegisterCall(Descriptors[i].fn))
    /\ regCalls' = Bump(regCalls, Descriptors[i].fn)
    /\ received' = received \cup {<<Descriptors[i].fn, tmp.plugin>>}
    /\ UNCHANGED <<registry, i, tmp, lookups, slots, entry, started, host>>

\* The caller, once RegisterPlugins has returned, goes on to run the
\* application.
HostRun ==
    /\ pc = "returned"
    /\ host = "startup"
    /\ host' = "running"
    /\ UNCHANGED <<registry, pc, i, tmp, calls, lookups, regCalls, received,
                   slots, entry, raised, surfaced, started, completed>>

\* The steps of RegisterPlugins itself.
Run == Lookup \/ LookupFails \/ LookupNull \/ Register \/ RegisterFails

Next ==
    \/ Invoke
    \/ Lookup
    \/ LookupFails
    \/ LookupNull
    \/ Register
    \/ RegisterFails
    \/ HostRun

Spec == Init /\ [][Next]_vars

\* RegisterPlugins is synchronous and runs to completion on one thread: a
\* call in progress always takes its next step.
FairSpec == Spec /\ WF_vars(Run)

\* The eight statements executed in the order `order` (a sequence of indices
\* into Descriptors), starting from registry state s.
RECURSIVE RegisterAllIn(_, _)
RegisterAllIn(order, s) ==
    IF Len(order) = 0
        THEN s
        ELSE RegisterAllIn(
                 Tail(order),
                 RegisterWithRegistrar(
                     s, GetRegistrarForPlugin(Descriptors[Head(order)].name)))

-----------------------------------------------------------------------------
(* Vocabulary of the properties *)

IsPrefix(s, t) == Len(s) <= Len(t) /\ s = SubSeq(t, 1, Len(s))

CountCalls(cs, c) == Cardinality({k \in DOMAIN cs : cs[k] = c})

LookupsIn(cs) == {k \in DOMAIN cs : cs[k].op = "lookup"}

RECURSIVE Total(_, _)
Total(f, D) ==
    IF D = {} THEN 0
    ELSE LET k == CHOOSE x \in D : TRUE IN f[k] + Total(f, D \ {k})

Running == pc \in {"lookup", "register"}

AllActive == \A n \in KnownNames : slots[n] >= 1

\* The sixteen calls of one invocation, in the order the properties state.
ExpectedOrder ==
    << LookupCall("BatteryPlusWindowsPlugin"),
       RegisterCall("BatteryPlusWindowsPluginRegisterWithRegistrar"),
       LookupCall("BonsoirWindowsPluginCApi"),
       RegisterCall("BonsoirWindowsPluginCApiRegisterWithRegistrar"),
       LookupCall("FirebaseCorePluginCApi"),
       RegisterCall("FirebaseCorePluginCApiRegisterWithRegistrar"),
       LookupCall("FlutterJsPlugin"),
       RegisterCall("FlutterJsPluginRegisterWithRegistrar"),
       LookupCall("PermissionHandlerWindowsPlugin"),
       RegisterCall("PermissionHandlerWindowsPluginRegisterWithRegistrar"),
       LookupCall("ScreenRetrieverWindowsPluginCApi"),
       RegisterCall("ScreenRetrieverWindowsPluginCApiRegisterWithRegistrar"),
       LookupCall("UrlLauncherWindows"),
       RegisterCall("UrlLauncherWindowsRegisterWithRegistrar"),
       LookupCall("WindowManagerPlugin"),
       RegisterCall("WindowManagerPluginRegisterWithRegistrar") >>

-----------------------------------------------------------------------------
\* C1: with a registry object behind the handle, an invocation that has
\* returned made exactly one GetRegistrarForPlugin call for each of the
\* eight known names and eight lookups in all; after the first invocation
\* the registry has counted each known name once and eight calls in total.
C1_OneLookupPerName ==
    (pc = "returned" /\ registry = "valid") =>
        /\ \A n \in KnownNames : CountCalls(calls, LookupCall(n)) = 1
        /\ Cardinality(LookupsIn(calls)) = Cardinality(KnownNames)
        /\ started = 1 =>
              /\ \A n \in KnownNames : CountOf(lookups, n) = 1
              /\ Total(lookups, DOMAIN lookups) = Cardinality(KnownNames)

C1_Witness ==
    /\ pc = "returned"
    /\ registry = "valid"
    /\ started = 1
    /\ Total(lookups, DOMAIN lookups) = 8

\* C2: once an invocation has returned, the set of names it passed to
\* GetRegistrarForPlugin is exactly the set of the eight known names, and so
\* is the set of names the registry has been asked for.
C2_RequestedNamesAreKnownNames ==
    (pc = "returned") =>
        /\ {calls[k].arg : k \in LookupsIn(calls)} = KnownNames
        /\ registry = "valid" => DOMAIN lookups = KnownNames

C2_Witness ==
    /\ pc = "returned"
    /\ registry = "valid"
    /\ completed = 1
    /\ DOMAIN lookups = KnownNames

\* C3: every registrar a registration function has received was obtained
\* under that function's own plugin name; an invocation that has returned
\* called each of the eight registration functions exactly once; and the
\* table pairs names and functions one to one.
C3_OwnRegistrarOncePerInvocation ==
    /\ registry = "valid" =>
          \A p \in received : p[1] \in KnownFns /\ p[2] = PluginOf(p[1])
    /\ pc = "returned" =>
          \A fn \in KnownFns : CountCalls(calls, RegisterCall(fn)) = 1
    /\ \A a, b \in DOMAIN Descriptors :
          (Descriptors[a].name = Descriptors[b].name)
              <=> (Descriptors[a].fn = Descriptors[b].fn)

C3_Witness ==
    /\ pc = "returned"
    /\ registry = "valid"
    /\ Cardinality(received) = 8
    /\ \A fn \in KnownFns : <<fn, PluginOf(fn)>> \in received

\* C4: with a null registry handle the call fails at once: no sub-registrar
\* is ever obtained, no registration function is ever invoked, the call
\* never returns normally and the host never goes on to run.
C4_NullFailsImmediately ==
    registry = "null" =>
        /\ tmp = NoRegistrar
        /\ DOMAIN regCalls = {}
        /\ pc \notin {"register", "returned"}
        /\ host = "startup"

\* C5: between invocations, when all n invocations so far have returned
\* normally, the registry has counted n lookups of each known name and each
\* registration function has been called n times.
C5_EveryInvocationIsAFullRound ==
    (registry = "valid" /\ pc \in {"idle", "returned"} /\ started = completed)
        =>
        /\ \A n \in KnownNames : CountOf(lookups, n) = completed
        /\ \A fn \in KnownFns : CountOf(regCalls, fn) = completed

C5_Witness ==
    /\ registry = "valid"
    /\ pc = "returned"
    /\ started = 2
    /\ completed = 2
    /\ \A fn \in KnownFns : CountOf(regCalls, fn) = 2

\* C6 as stated: over any sequence of invocations, no registration function
\* has been called more than once.
C6_AtMostOncePerProcess ==
    \A fn \in DOMAIN regCalls : regCalls[fn] <= 1

\* C6 as amended: within one invocation no registration function is called
\* more than once, and over the whole process a registration function has
\* been called at most as often as RegisterPlugins has been invoked.
C6_AtMostOncePerInvocation ==
    /\ \A fn \in DOMAIN regCalls :
          CountCalls(calls, RegisterCall(fn)) <= 1
    /\ \A fn \in DOMAIN regCalls : regCalls[fn] <= started

C6_Witness ==
    /\ started = 2
    /\ \E fn \in DOMAIN regCalls :
          regCalls[fn] = 2 /\ CountCalls(calls, RegisterCall(fn)) = 1

\* C7: given a registry object, an invocation in progress ends, either by
\* returning or with a failure raised by a callee; when it has returned all
\* eight plugins are active; and the host is never running with any of the
\* eight plugins unregistered.
C7_CompleteBeforeHostRuns ==
    /\ [](registry = "valid" /\ pc = "returned" => AllActive)
    /\ [](registry = "valid" /\ host = "running" => AllActive)
    /\ [](host = "running" => completed >= 1)
    /\ (Running ~> (pc = "returned" \/ raised # NoFailure))

C7_Witness ==
    /\ registry = "valid"
    /\ host = "running"
    /\ pc = "returned"
    /\ AllActive

\* C8: when the lookup or the registration call of statement k has failed,
\* the failure that leaves RegisterPlugins is the one that was raised; the
\* invocation has ended without returning; the calls it issued are exactly
\* those up to and including the failed one, each once (no retry, nothing
\* skipped to); the registrations of statements 1..k-1 stand and none of
\* k..8 has been made; and the only step that can follow is a fresh
\* invocation by the caller, which leaves the registry as it is.
C8_FailurePropagatesAndStops ==
    /\ [](raised # NoFailure =>
            /\ surfaced = raised
            /\ pc = (IF raised.kind = "exception" THEN "thrown" ELSE "aborted")
            /\ i = raised.at
            /\ calls = SubSeq(ExpectedOrder, 1,
                              IF raised.op = "lookup"
                                  THEN 2 * raised.at - 1 ELSE 2 * raised.at)
            /\ registry = "valid" =>
                  \A k \in 1..8 :
                      slots[ExpectedOrder[2 * k - 1].arg]
                          = entry[ExpectedOrder[2 * k - 1].arg]
                              + (IF k < raised.at THEN 1 ELSE 0))
    /\ [][raised # NoFailure =>
            /\ raised' = NoFailure
            /\ started' = started + 1
            /\ pc' = "lookup"
            /\ i' = 1
            /\ slots' = slots
            /\ lookups' = lookups
            /\ regCalls' = regCalls]_vars

C8_Witness ==
    /\ registry = "valid"
    /\ raised.kind = "exception"
    /\ raised.op = "register"
    /\ raised.at = 5
    /\ surfaced = raised
    /\ slots["FlutterJsPlugin"] = 1
    /\ slots["PermissionHandlerWindowsPlugin"] = 0

\* C9: given a registry object, the lookup and the registration call made
\* for plugin P leave the lookup counts and slots of the other seven names
\* and the call counts of the other seven registration functions unchanged,
\* and a registration that returns adds one registration to P's slot; when
\* an invocation has returned after a history without failures, the slots
\* are what executing the eight statements in any of the 8! orders would
\* have made of the slots the invocation started from.
C9_IsolatedSlotsAnyOrder ==
    /\ [][(Running /\ registry = "valid") =>
            LET fn == Descriptors[i].fn
                P == PluginOf(fn)
            IN  /\ \A q \in KnownNames \ {P} :
                      /\ slots'[q] = slots[q]
                      /\ CountOf(lookups', q) = CountOf(lookups, q)
                /\ \A g \in KnownFns \ {fn} :
                      CountOf(regCalls', g) = CountOf(regCalls, g)
                /\ (pc = "register" /\ raised' = NoFailure) =>
                      slots'[P] = slots[P] + 1]_vars
    /\ [](registry = "valid" /\ pc = "returned" /\ started = completed =>
            \A perm \in Permutations(DOMAIN Descriptors) :
                RegisterAllIn(perm, entry) = slots)

C9_Witness ==
    /\ registry = "valid"
    /\ pc = "returned"
    /\ started = completed
    /\ slots = RegisterAllIn(<<8, 7, 6, 5, 4, 3, 2, 1>>, entry)
    /\ slots # entry

\* C10: the calls an invocation has issued are always an initial part of
\* the sequence lookup(Battery), register(Battery), lookup(Bonsoir), ...,
\* register(WindowManager), and all sixteen of it once the invocation has
\* returned; a registration call is issued only with the registrar of the
\* lookup that immediately precedes it, and a lookup only when no registrar
\* is pending.
C10_FixedSequentialOrder ==
    /\ IsPrefix(calls, ExpectedOrder)
    /\ pc = "returned" => calls = ExpectedOrder
    /\ pc = "register" =>
          /\ calls[Len(calls)].op = "lookup"
          /\ registry = "valid" => tmp.plugin = calls[Len(calls)].arg
    /\ pc = "lookup" =>
          /\ tmp = NoRegistrar
          /\ Len(calls) = 2 * (i - 1)

C10_Witness ==
    /\ pc = "returned"
    /\ registry = "valid"
    /\ Len(calls) = 16
    /\ calls = ExpectedOrder

====
